---- MODULE Spec2Model ----
(***************************************************************************)
(* Model of package scrape (src/scrape/scrape.go).                         *)
(*                                                                         *)
(*   Spec       the pagination loop Scraper.Scrape (lines 336-461; the     *)
(*              function is kept in the file inside a block comment),      *)
(*              followed by the caller's First() on what it returned.      *)
(*   LiveSpec   the same loop under weak fairness: the loop is sequential  *)
(*              and synchronous, every step that can run does run.         *)
(*   BuildSpec  NewTask / NewScraper on a payload, followed by First,      *)
(*              AllBlocks and PartNames on the Task that was built.        *)
(***************************************************************************)
EXTENDS Integers, Sequences, FiniteSets, TLC

VARIABLES
    pc,         \* position in Scrape / in the caller
    opts,       \* ScrapeOptions handed to Scrape
    world,      \* behaviour of the collaborators: "reliable" never fails
    paginator,  \* behaviour of s.Config.Paginator
    req,        \* the request (HttpClientFetcherRequest or splash.Request)
    url,        \* local url
    numPages,   \* local numPages
    r,          \* what Fetcher.Fetch returned last
    setCookie,  \* what SetCookieToRequest returned last
    res,        \* local res (*ScrapeResults)
    results,    \* local results of the page being extracted
    blocks,     \* what DividePage returned for the page
    block,      \* how many of them the range loop has processed
    extracted,  \* what the extractors returned for the last block
    ret,        \* the results value handed to the caller (<<>> is nil)
    err,        \* the error handed to the caller ("" is nil)
    out,        \* what the caller's last call on the results produced
    p,          \* Payload given to NewTask
    task        \* what NewTask returned

scrapeVars == <<opts, world, paginator, req, url, numPages, r, setCookie,
                res, results, blocks, block, extracted, ret, out>>
vars       == <<pc, opts, world, paginator, req, url, numPages, r, setCookie,
                res, results, blocks, block, extracted, ret, err, out, p, task>>

----------------------------------------------------------------------------
(* Bounds *)

MaxMaxPages    == 2  \* Opts.MaxPages ranges over 0..MaxMaxPages
MaxBlocks      == 2  \* blocks per page, in the runs limited to one page
ManyPageBlocks == 1  \* blocks per page, in the runs of several pages
MaxFields      == 2  \* number of fields of a payload

\* An unlimited run (MaxPages = 0) is cut after MaxMaxPages pages.  A
\* limited run is cut one page later than any limit, so the cut never stands
\* in for the limit of line 367.
PageCap(maxPages) == IF maxPages = 0 THEN MaxMaxPages ELSE MaxMaxPages + 1

\* The number of blocks DividePage may return: the runs of one page explore
\* the pages with many blocks, the longer runs the pages with few.
BlocksPerPage(maxPages) == IF maxPages = 1 THEN MaxBlocks ELSE ManyPageBlocks

\* s.Config.Pieces of the runs: two pieces, validated names.
Pieces == <<"title", "price">>

Urls    == {"u1", "u2"}
Cookies == {"c1", "c2"}

Nil == <<>>                 \* a nil pointer; a non-nil pointer to x is <<x>>
Ptr(x) == <<x>>
NoResponse == [type |-> "none", cookie |-> ""]
NoSetCookie == [val |-> "", err |-> FALSE]
EmptyMap == [n \in {} |-> "v"]
EmptyRes == [URLs |-> <<>>, Results |-> <<>>]
NoCall == [call |-> "none", kind |-> "none", val |-> Nil]
Called(name, o) == [call |-> name, kind |-> o.kind, val |-> o.val]

----------------------------------------------------------------------------
(* Results.First and Results.AllBlocks *)

RECURSIVE Flatten(_)
Flatten(pages) ==
    IF pages = <<>> THEN <<>> ELSE Head(pages) \o Flatten(Tail(pages))

\* r.Results[0] on an empty slice is an index-out-of-range panic.
First(rs) ==
    IF Len(rs) = 0 THEN [kind |-> "panic", val |-> Nil]
    ELSE IF Len(rs[1]) = 0 THEN [kind |-> "value", val |-> Nil]
    ELSE [kind |-> "value", val |-> Ptr(rs[1][1])]

AllBlocks(rs) == [kind |-> "value", val |-> Flatten(rs)]

----------------------------------------------------------------------------
(* Scraper.Scrape *)

\* line 367: opts.MaxPages > 0 && numPages >= opts.MaxPages
ReachedLimit_offByOne(n, max) == max > 0 /\ n > max
ReachedLimit_ignored(n, max) == max < 0 /\ n >= max
ReachedLimit(n, max) == max > 0 /\ n >= max

\* line 420: a nil response from an extractor is not included
SkipPiece_never(pieceResults) == FALSE
SkipPiece(pieceResults) == pieceResults = "nil"

Put(m, k, v) == [n \in DOMAIN m \cup {k} |-> IF n = k THEN v ELSE m[n]]

\* lines 404-425: the pieces of one block, in order; the first extractor
\* error ends the scrape.  Every non-nil extracted value is written "v".
RECURSIVE ProcessPieces(_, _, _, _)
ProcessPieces(i, sel, outcome, blockResults) ==
    IF i > Len(Pieces) THEN [err |-> FALSE, blockResults |-> blockResults]
    ELSE IF outcome[i] = "err" THEN [err |-> TRUE, blockResults |-> blockResults]
    ELSE IF SkipPiece(outcome[i]) THEN ProcessPieces(i + 1, sel, outcome, blockResults)
    ELSE ProcessPieces(i + 1, sel, outcome, Put(blockResults, Pieces[i], "v"))

\* lines 426-429
AppendBlock(rs, blockResults) ==
    IF Cardinality(DOMAIN blockResults) > 0 THEN Append(rs, blockResults) ELSE rs

\* line 433
AppendPage_skipEmpty(all, page) == IF page = <<>> THEN all ELSE Append(all, page)
AppendPage(all, page) == Append(all, page)

\* lines 443-456: the request for the next page
NextRequest_noCookies(old, next, resp, sc) ==
    IF old.variant = "http" THEN [variant |-> "http", URL |-> next, Cookies |-> ""]
    ELSE IF resp.type = "splash" THEN [variant |-> "splash", URL |-> next, Cookies |-> ""]
    ELSE old
NextRequest(old, next, resp, sc) ==
    IF old.variant = "http" THEN [variant |-> "http", URL |-> next, Cookies |-> ""]
    ELSE IF resp.type = "splash" THEN [variant |-> "splash", URL |-> next, Cookies |-> sc]
    ELSE old

Failures == IF world = "reliable" THEN {} ELSE {"err"}

\* What Paginator.NextPage can return for the current url.
NextPageOutcomes(kind, u) ==
    CASE kind = "none" -> {[url |-> "", err |-> FALSE]}
      [] kind = "same" -> {[url |-> u, err |-> FALSE]}
      [] kind = "more" -> {[url |-> n, err |-> FALSE] : n \in Urls}
      [] OTHER -> {[url |-> n, err |-> FALSE] : n \in Urls \cup {""}}
                  \cup {[url |-> "", err |-> TRUE] : f \in Failures}

Return(v, e, where) ==
    /\ ret' = v
    /\ err' = e
    /\ pc' = where

ScrapeInit(worlds, paginators) ==
    /\ pc = "start"
    /\ opts \in [MaxPages : 0..MaxMaxPages]
    /\ world \in worlds
    /\ paginator \in paginators
    /\ req \in [variant : {"http", "splash"}, URL : {"", "u1"}, Cookies : {""}]
    /\ url = ""
    /\ numPages = 0
    /\ r = NoResponse
    /\ setCookie = NoSetCookie
    /\ res = EmptyRes
    /\ results = <<>>
    /\ blocks = <<>>
    /\ block = 0
    /\ extracted = <<>>
    /\ ret = Nil
    /\ err = ""
    /\ out = NoCall
    /\ p = Nil
    /\ task = Nil

\* lines 338-362
Start ==
    /\ pc = "start"
    /\ url' = req.URL
    /\ \/ /\ Len(req.URL) = 0
          /\ Return(Nil, "no URL provided", "failed")
          /\ UNCHANGED res
       \/ /\ Len(req.URL) # 0
          /\ \E prep \in {"ok"} \cup Failures :
                IF prep = "err"
                THEN Return(Nil, "prepare", "failed") /\ UNCHANGED res
                ELSE /\ res' = EmptyRes
                     /\ pc' = "loop"
                     /\ UNCHANGED <<ret, err>>
    /\ UNCHANGED <<opts, world, paginator, req, numPages, r, setCookie,
                   results, blocks, block, extracted, out, p, task>>

\* lines 365-369 and 459-460
Loop ==
    /\ pc = "loop"
    /\ IF Len(url) = 0 \/ ReachedLimit(numPages, opts.MaxPages)
       THEN Return(Ptr(res), "", "done")
       ELSE /\ numPages < PageCap(opts.MaxPages)
            /\ pc' = "fetch"
            /\ UNCHANGED <<ret, err>>
    /\ UNCHANGED <<opts, world, paginator, req, url, numPages, r, setCookie,
                   res, results, blocks, block, extracted, out, p, task>>

\* lines 371-375
Fetch ==
    /\ pc = "fetch"
    /\ \/ /\ \E f \in Failures : Return(Nil, "fetch", "failed")
          /\ UNCHANGED r
       \/ /\ \E c \in Cookies, t \in {req.variant} \cup {"other" : f \in Failures} :
                r' = [type |-> t, cookie |-> c]
          /\ pc' = "read"
          /\ UNCHANGED <<ret, err>>
    /\ UNCHANGED <<opts, world, paginator, req, url, numPages, setCookie,
                   res, results, blocks, block, extracted, out, p, task>>

\* lines 377-397: the response body and the goquery document.  A response of
\* the wrong type, or a failed GetContent, leaves no reader: the http case
\* panics in the type assertion, the splash case in reading a nil reader.
Read ==
    /\ pc = "read"
    /\ \/ /\ r.type # req.variant
          /\ Return(Nil, "", "panic")
          /\ UNCHANGED <<res, results>>
       \/ /\ r.type = "splash"
          /\ \E f \in Failures : Return(Nil, "", "panic")
          /\ UNCHANGED <<res, results>>
       \/ /\ r.type = req.variant
          /\ \E f \in Failures : Return(Nil, "document", "failed")
          /\ UNCHANGED <<res, results>>
       \/ /\ r.type = req.variant
          /\ res' = [res EXCEPT !.URLs = Append(@, url)]
          /\ results' = <<>>
          /\ pc' = "divide"
          /\ UNCHANGED <<ret, err>>
    /\ UNCHANGED <<opts, world, paginator, req, url, numPages, r, setCookie,
                   blocks, block, extracted, out, p, task>>

\* line 400: s.Config.DividePage(doc.Selection)
Divide ==
    /\ pc = "divide"
    /\ \E n \in 0..BlocksPerPage(opts.MaxPages) : blocks' = [i \in 1..n |-> i]
    /\ block' = 0
    /\ extracted' = <<>>
    /\ pc' = "extract"
    /\ UNCHANGED <<opts, world, paginator, req, url, numPages, r, setCookie,
                   res, results, ret, err, out, p, task>>

\* lines 400-430, one block
ExtractBlock ==
    /\ pc = "extract"
    /\ block < Len(blocks)
    /\ \E outcome \in [1..Len(Pieces) -> {"val", "nil"} \cup Failures] :
          LET done == ProcessPieces(1, blocks[block + 1], outcome, EmptyMap) IN
          /\ extracted' = outcome
          /\ block' = block + 1
          /\ IF done.err
             THEN Return(Nil, "extract", "failed") /\ UNCHANGED results
             ELSE /\ results' = AppendBlock(results, done.blockResults)
                  /\ UNCHANGED <<pc, ret, err>>
    /\ UNCHANGED <<opts, world, paginator, req, url, numPages, r, setCookie,
                   res, blocks, out, p, task>>

\* lines 432-435
PageDone ==
    /\ pc = "extract"
    /\ block = Len(blocks)
    /\ res' = [res EXCEPT !.Results = AppendPage(@, results)]
    /\ numPages' = numPages + 1
    /\ pc' = "next"
    /\ UNCHANGED <<opts, world, paginator, req, url, r, setCookie,
                   results, blocks, block, extracted, ret, err, out, p, task>>

\* lines 437-441
NextPage ==
    /\ pc = "next"
    /\ \E o \in NextPageOutcomes(paginator, url) :
          /\ url' = o.url
          /\ IF o.err
             THEN Return(Nil, "paginate", "failed")
             ELSE pc' = "update" /\ UNCHANGED <<ret, err>>
    /\ UNCHANGED <<opts, world, paginator, req, numPages, r, setCookie,
                   res, results, blocks, block, extracted, out, p, task>>

\* lines 443-456.  SetCookieToRequest is only called in the splash case; a
\* failure is logged and whatever it returned is used.
UpdateRequest ==
    /\ pc = "update"
    /\ \E sc \in IF req.variant = "splash" /\ r.type = "splash"
                 THEN {[val |-> r.cookie, err |-> FALSE]}
                      \cup {[val |-> "", err |-> TRUE] : f \in Failures}
                 ELSE {setCookie} :
          /\ setCookie' = sc
          /\ req' = NextRequest(req, url, r, sc.val)
    /\ results' = <<>>
    /\ blocks' = <<>>
    /\ block' = 0
    /\ extracted' = <<>>
    /\ pc' = "loop"
    /\ UNCHANGED <<opts, world, paginator, url, numPages, r,
                   res, ret, err, out, p, task>>

\* The caller, once Scrape has returned without error: First() on the
\* results it was handed.
CallFirst ==
    /\ pc = "done"
    /\ out = NoCall
    /\ out' = Called("First", First(ret[1].Results))
    /\ UNCHANGED <<pc, opts, world, paginator, req, url, numPages, r, setCookie,
                   res, results, blocks, block, extracted, ret, err, p, task>>

Next ==
    \/ Start
    \/ Loop
    \/ Fetch
    \/ Read
    \/ Divide
    \/ ExtractBlock
    \/ PageDone
    \/ NextPage
    \/ UpdateRequest
    \/ CallFirst

\* Every behaviour of the collaborators: each call may fail, the paginator
\* may return anything.
Init == ScrapeInit({"faulty"}, {"any"})

Spec == Init /\ [][Next]_vars

\* Collaborators that never fail, with a paginator that never has a next
\* page, one that returns the URL it was given, and one that always has a
\* next page.
LiveInit == ScrapeInit({"reliable"}, {"none", "same", "more"})

LiveSpec == LiveInit /\ [][Next]_vars /\ WF_vars(Next)

----------------------------------------------------------------------------
(* NewScraper and NewTask *)

FieldNames     == {"", "X", "X_text"}
FieldSelectors == {"", ".a"}

\* f.Extractor: the type tag, and what Params holds: nothing (nil), a value
\* that is no map, or a map, whose "regexp" entry is absent, no string, a
\* string that does not compile, or a pattern.
Extractors ==
    {[Type |-> "link",  Params |-> "nil"],
     [Type |-> "image", Params |-> "nil"],
     [Type |-> "text",  Params |-> "nil"],
     [Type |-> "text",  Params |-> "notmap"],
     [Type |-> "bogus", Params |-> "nil"],
     [Type |-> "regex", Params |-> "regexp absent"],
     [Type |-> "regex", Params |-> "regexp nonstring"],
     [Type |-> "regex", Params |-> "regexp invalid"],
     [Type |-> "regex", Params |-> "regexp valid"]}

Fields == [Name : FieldNames, Selector : FieldSelectors, Extractor : Extractors]

FieldLists == UNION {[1..n -> Fields] : n \in 0..MaxFields}

Payloads ==
    [Fields : FieldLists,
     Paginator : {Nil} \cup {Ptr([Selector |-> ".next", Attribute |-> "href", MaxPages |-> k]) : k \in {0, 2}},
     PaginateResults : {Nil, Ptr(FALSE)},
     RandomizeFetchDelay : {Nil, Ptr(FALSE)}]

Part(name, selector, extractor) ==
    [Name |-> name, Selector |-> selector, Extractor |-> extractor]

\* lines 168-254, one field: the Parts it adds, or a panic (the type
\* assertion of line 170, the one of line 237, regexp.MustCompile).
FieldParts(f) ==
    IF f.Extractor.Params = "notmap" THEN [panic |-> TRUE, parts |-> <<>>]
    ELSE CASE f.Extractor.Type = "link" ->
                [panic |-> FALSE,
                 parts |-> <<Part(f.Name \o "_text", f.Selector, "Text"),
                             Part(f.Name \o "_link", f.Selector, "Attr href")>>]
           [] f.Extractor.Type = "image" ->
                [panic |-> FALSE,
                 parts |-> <<Part(f.Name \o "_src", f.Selector, "Attr src"),
                             Part(f.Name \o "_alt", f.Selector, "Attr alt")>>]
           [] f.Extractor.Type = "regex" ->
                IF f.Extractor.Params = "regexp valid"
                THEN [panic |-> FALSE, parts |-> <<Part(f.Name, f.Selector, "Regex")>>]
                ELSE [panic |-> TRUE, parts |-> <<>>]
           [] f.Extractor.Type = "text" ->
                [panic |-> FALSE, parts |-> <<Part(f.Name, f.Selector, "Text")>>]
           [] OTHER ->
                [panic |-> FALSE, parts |-> <<Part(f.Name, f.Selector, "nil")>>]

\* lines 165-255: the loop over p.Fields.  Each field adds its selector once.
RECURSIVE BuildParts(_, _, _, _)
BuildParts(fields, i, parts, selectors) ==
    IF i > Len(fields) THEN [panic |-> FALSE, parts |-> parts, selectors |-> selectors]
    ELSE LET fp == FieldParts(fields[i]) IN
         IF fp.panic THEN [panic |-> TRUE, parts |-> parts, selectors |-> selectors]
         ELSE BuildParts(fields, i + 1, parts \o fp.parts,
                         Append(selectors, fields[i].Selector))

\* lines 262-275: the first part, in order, that fails a check
RECURSIVE ValidateParts(_, _, _)
ValidateParts(parts, i, seenNames) ==
    IF i > Len(parts) THEN ""
    ELSE IF Len(parts[i].Name) = 0 THEN "no name provided for part"
    ELSE IF parts[i].Name \in seenNames THEN "part has a duplicate name"
    ELSE IF Len(parts[i].Selector) = 0 THEN "no selector provided for part"
    ELSE ValidateParts(parts, i + 1, seenNames \cup {parts[i].Name})

\* lines 164-311.  Format, FetchDelay and RetryTimes are copied through and
\* are left out.
NewScraper(payload) ==
    LET built == BuildParts(payload.Fields, 1, <<>>, <<>>)
        \* lines 277-282
        pager == IF payload.Paginator = Nil THEN "dummyPaginator" ELSE "BySelector"
    IN
    IF built.panic THEN [kind |-> "panic", err |-> "", scraper |-> Nil]
    ELSE IF Len(built.parts) = 0
         THEN [kind |-> "error", err |-> "no pieces in the config", scraper |-> Nil]
    ELSE IF ValidateParts(built.parts, 1, {}) # ""
         THEN [kind |-> "error", err |-> ValidateParts(built.parts, 1, {}), scraper |-> Nil]
    \* lines 292-304: p.Paginator.MaxPages, *p.PaginateResults and
    \* *p.RandomizeFetchDelay dereference the payload's pointers
    ELSE IF \/ payload.Paginator = Nil
            \/ payload.PaginateResults = Nil
            \/ payload.RandomizeFetchDelay = Nil
         THEN [kind |-> "panic", err |-> "", scraper |-> Nil]
    ELSE [kind |-> "scraper", err |-> "",
          scraper |-> Ptr([Paginator |-> pager,
                           DividePage |-> IF Len(built.selectors) = 0
                                          THEN "DividePageBySelector body"
                                          ELSE "DividePageByIntersection",
                           Parts |-> built.parts,
                           Opts |-> [MaxPages |-> payload.Paginator[1].MaxPages,
                                     PaginateResults |-> payload.PaginateResults[1],
                                     RandomizeFetchDelay |-> payload.RandomizeFetchDelay[1]]])]

\* lines 313-319
PartNames(s) == [i \in 1..Len(s.Parts) |-> s.Parts[i].Name]

BuildInit ==
    /\ pc = "new"
    /\ p \in Payloads
    /\ task = Nil
    /\ err = ""
    /\ out = NoCall
    /\ opts = [MaxPages |-> 0]
    /\ world = "faulty"
    /\ paginator = "any"
    /\ req = [variant |-> "http", URL |-> "", Cookies |-> ""]
    /\ url = ""
    /\ numPages = 0
    /\ r = NoResponse
    /\ setCookie = NoSetCookie
    /\ res = EmptyRes
    /\ results = <<>>
    /\ blocks = <<>>
    /\ block = 0
    /\ extracted = <<>>
    /\ ret = Nil

\* lines 134-151.  The Task holds its ID and Scraper; its embedded Session
\* and Results are zero values: no Visited map, no page.
NewTask ==
    /\ pc = "new"
    /\ LET made == NewScraper(p) IN
       CASE made.kind = "panic" ->
              /\ pc' = "panic"
              /\ UNCHANGED <<task, err>>
         [] made.kind = "error" ->
              /\ pc' = "error"
              /\ task' = Nil
              /\ err' = made.err
         [] OTHER ->
              /\ pc' = "task"
              /\ task' = Ptr([ID |-> "ksuid", Scraper |-> made.scraper[1],
                              Status |-> "",
                              Results |-> [Visited |-> Nil, Results |-> <<>>]])
              /\ err' = ""
    /\ UNCHANGED <<scrapeVars, p>>

TaskFirst ==
    /\ pc = "task"
    /\ out = NoCall
    /\ out' = Called("First", First(task[1].Results.Results))
    /\ UNCHANGED <<pc, opts, world, paginator, req, url, numPages, r, setCookie,
                   res, results, blocks, block, extracted, ret, err, p, task>>

TaskAllBlocks ==
    /\ pc = "task"
    /\ out = NoCall
    /\ out' = Called("AllBlocks", AllBlocks(task[1].Results.Results))
    /\ UNCHANGED <<pc, opts, world, paginator, req, url, numPages, r, setCookie,
                   res, results, blocks, block, extracted, ret, err, p, task>>

TaskPartNames ==
    /\ pc = "task"
    /\ out = NoCall
    /\ out' = [call |-> "PartNames", kind |-> "value",
               val |-> PartNames(task[1].Scraper)]
    /\ UNCHANGED <<pc, opts, world, paginator, req, url, numPages, r, setCookie,
                   res, results, blocks, block, extracted, ret, err, p, task>>

BuildNext ==
    \/ NewTask
    \/ TaskFirst
    \/ TaskAllBlocks
    \/ TaskPartNames

BuildSpec == BuildInit /\ [][BuildNext]_vars

----------------------------------------------------------------------------
(* Properties of NewScraper, NewTask and First *)

Built == pc \in {"task", "error", "panic"}

Distinct(seq) == \A i, j \in 1..Len(seq) : i # j => seq[i] # seq[j]

\* The fields of the payload build without a panic and pass the validation
\* of lines 257-275.
FieldsAccepted(payload) ==
    LET built == BuildParts(payload.Fields, 1, <<>>, <<>>) IN
    /\ ~built.panic
    /\ Len(built.parts) > 0
    /\ ValidateParts(built.parts, 1, {}) = ""

BadRegexField(f) ==
    f.Extractor.Type = "regex" /\ f.Extractor.Params # "regexp valid"

\* Whenever NewScraper returns a Scraper, the validation of lines 257-275
\* has held of its Parts.
PartsValidWhenBuilt ==
    pc = "task" =>
        LET parts == task[1].Scraper.Parts IN
        /\ Len(parts) > 0
        /\ \A i \in 1..Len(parts) : Len(parts[i].Name) > 0 /\ Len(parts[i].Selector) > 0
        /\ Distinct(PartNames(task[1].Scraper))

\* C4: for a payload with valid fields and no paginator description,
\* NewScraper succeeds and the Scraper's paginator is the no-op paginator.
C4_NoPaginator ==
    (/\ Built
     /\ p.Paginator = Nil
     /\ p.PaginateResults # Nil
     /\ p.RandomizeFetchDelay # Nil
     /\ FieldsAccepted(p)) =>
        /\ pc = "task"
        /\ task # Nil
        /\ task[1].Scraper.Paginator = "dummyPaginator"

\* C5: for every field list, either NewScraper returns a Scraper whose
\* Parts are non-empty, with non-empty pairwise distinct names and non-empty
\* selectors, or it returns an error (no parts, duplicate name, missing name,
\* missing selector) and no Scraper.
C5_PartsValidated ==
    Built =>
        \/ /\ pc = "task"
           /\ task # Nil
           /\ LET parts == task[1].Scraper.Parts IN
              /\ Len(parts) > 0
              /\ \A i \in 1..Len(parts) : Len(parts[i].Name) > 0 /\ Len(parts[i].Selector) > 0
              /\ Distinct(PartNames(task[1].Scraper))
        \/ /\ pc = "error"
           /\ task = Nil
           /\ err \in {"no pieces in the config", "no name provided for part",
                       "part has a duplicate name", "no selector provided for part"}

\* C6: for a regex field whose Params["regexp"] is missing, no string or no
\* valid pattern, NewScraper returns a configuration error to its caller and
\* NewTask creates no Task.
C6_RegexConfigError ==
    (/\ Built
     /\ \E i \in 1..Len(p.Fields) : BadRegexField(p.Fields[i])) =>
        /\ pc = "error"
        /\ err # ""
        /\ task = Nil

\* C7: for every Results value, with zero pages or with a first page of
\* zero blocks as well, First() returns the first block of the first page
\* when there is one and nil otherwise; it never fails.
C7_FirstNeverFails ==
    (pc = "task" /\ out.call = "First") =>
        LET rs == task[1].Results.Results IN
        /\ out.kind = "value"
        /\ out.val = IF Len(rs) > 0 /\ Len(rs[1]) > 0 THEN Ptr(rs[1][1]) ELSE Nil

----------------------------------------------------------------------------
(* Properties of the pagination loop *)

PieceNames == {Pieces[i] : i \in 1..Len(Pieces)}
Elems(seq) == {seq[i] : i \in 1..Len(seq)}

\* C1: with MaxPages = k > 0 the results never hold more than k page
\* entries, whatever the paginator returns, and no fetch is started once k
\* pages have been fetched.
C1_MaxPagesBound ==
    opts.MaxPages > 0 =>
        /\ Len(res.Results) <= opts.MaxPages
        /\ Len(res.URLs) <= opts.MaxPages
        /\ pc = "fetch" => /\ numPages < opts.MaxPages
                           /\ Len(res.URLs) < opts.MaxPages

\* The limit ends a run whose paginator had a further page to offer.
C1_Witness ==
    /\ pc = "done"
    /\ opts.MaxPages = MaxMaxPages
    /\ Len(res.Results) = opts.MaxPages
    /\ url # ""

\* C2 (as claimed): when the scrape fails on a page, the caller is still
\* handed the page entries of all pages completed before the failure, and
\* the URL whose fetch or extraction failed is recorded with them.
C2_PartialResultsKept ==
    (/\ pc = "failed"
     /\ err \in {"fetch", "document", "extract", "paginate"}
     /\ Len(res.Results) >= 1) =>
        /\ ret # Nil
        /\ ret[1].Results = res.Results
        /\ err \in {"fetch", "extract"} => url \in Elems(ret[1].URLs)

\* C3 (as claimed): at a page boundary and at termination, Done or Failed,
\* the number of page entries equals the number of pages fetched and
\* recorded as visited.
C3_Original ==
    pc \in {"loop", "done", "failed"} => Len(res.Results) = Len(res.URLs)

\* C3 (amended): at a page boundary and at Done the number of page entries
\* equals the number of pages recorded as visited (and numPages), a page
\* without records being an empty entry; at Failed the two are equal except
\* after an extractor error, where the page that failed is recorded as
\* visited and has no entry.
C3_PageEntries ==
    /\ pc \in {"loop", "done"} =>
          /\ Len(res.Results) = Len(res.URLs)
          /\ Len(res.Results) = numPages
    /\ pc = "failed" =>
          Len(res.URLs) = Len(res.Results) + (IF err = "extract" THEN 1 ELSE 0)

\* A page on which no block produced a record has its (empty) entry.
C3_Witness ==
    /\ pc = "done"
    /\ Len(res.Results) = Len(res.URLs)
    /\ \E i \in 1..Len(res.Results) : res.Results[i] = <<>>

ExtractedNames == {Pieces[i] : i \in {j \in DOMAIN extracted : extracted[j] = "val"}}

C8_Records ==
    /\ \A page \in Elems(res.Results) \cup {results} :
          \A rec \in Elems(page) : DOMAIN rec # {} /\ DOMAIN rec \subseteq PieceNames
    /\ pc \in {"extract", "next"} => Len(results) <= block
    /\ pc = "next" => /\ Len(res.Results[Len(res.Results)]) <= Len(blocks)
                      /\ res.Results[Len(res.Results)] = results

C8_Step ==
    (pc = "extract" /\ pc' = "extract" /\ block' = block + 1) =>
        LET names == ExtractedNames' IN
        results' = IF names = {} THEN results
                   ELSE Append(results, [n \in names |-> "v"])

\* C8: every record of a page is non-empty and holds exactly the names of
\* the Parts whose extractor returned a value for its block; a block for
\* which every Part returns absence adds no record; the page has at most as
\* many records as divided blocks, in block order.
C8_BlockRecords == []C8_Records /\ [][C8_Step]_vars

\* The second block of a page returned absence for every Part and was
\* dropped, after a first block that kept one of the two names.
C8_Witness ==
    /\ pc = "extract"
    /\ block = 2
    /\ extracted = <<"nil", "nil">>
    /\ Len(results) = 1
    /\ DOMAIN results[1] = {"price"}

\* C9: when nothing fails and the paginator always returns a non-empty next
\* URL, a scrape with MaxPages = k > 0 eventually ends in Done with exactly
\* k pages fetched and appended.
C9_StopsAtMaxPages ==
    (/\ pc = "start"
     /\ world = "reliable"
     /\ paginator \in {"same", "more"}
     /\ req.URL # ""
     /\ opts.MaxPages > 0)
    ~> (/\ pc = "done"
        /\ ret # Nil
        /\ Len(ret[1].Results) = opts.MaxPages
        /\ Len(ret[1].URLs) = opts.MaxPages
        /\ numPages = opts.MaxPages)

\* The stated scenario: the paginator returns the URL it was given, and the
\* run ends after two pages.
C9_Witness ==
    /\ pc = "done"
    /\ paginator = "same"
    /\ opts.MaxPages = 2
    /\ Len(ret[1].Results) = 2
    /\ url = "u1"

====
